---- MODULE Spec2Model ----
(***************************************************************************)
(* Model of indexed_heap.IndexedHeap (a binary heap whose items are        *)
(* addressable by an external key) and of the sort() generator.            *)
(*                                                                         *)
(* A heap object is the record                                             *)
(*   [_heap_items, _handle_to_position_mapping, _key, _reverse, exc]       *)
(* where _heap_items is the Python list of (key, value) tuples,            *)
(* _handle_to_position_mapping the dict key -> 0-based list index, and exc *)
(* the exception (if any) that is propagating out of the current call.     *)
(***************************************************************************)
EXTENDS Integers, Sequences, FiniteSets, TLC

\* ---- bounds of the model ------------------------------------------------
NumKeys  == 2       \* external keys are None and 1..NumKeys
MaxVal   == 2       \* stored values are 1..MaxVal
MaxUpd   == 2       \* longest dictionary passed to update()
DeepKeys == 6       \* keys of the heaps of SpecDeep: 1..DeepKeys
MaxCalls == 3       \* calls the client of SpecDeep makes on its heap
BuildKeys == 4      \* keys (and distinct values) of the maps of SpecBuild

\* Python's None, as an external key or as a stored value
None == -1

Keys == {None} \cup (1..NumKeys)
Vals == 1..MaxVal

\* ---- Python list / dict primitives --------------------------------------
\* position (1-based) of the Python index i (negative indices count from
\* the end of the list)
Pos(items, i) == IF i < 0 THEN Len(items) + i + 1 ELSE i + 1

ListGet(items, i) == items[Pos(items, i)]

ListSet(items, i, x) == [items EXCEPT ![Pos(items, i)] = x]

ListDelLast(items) == SubSeq(items, 1, Len(items) - 1)

DictSet(d, k, x) == [y \in (DOMAIN d) \cup {k} |-> IF y = k THEN x ELSE d[y]]

DictDel(d, k) == [y \in (DOMAIN d) \ {k} |-> d[y]]

EmptyDict == [y \in {} |-> 0]

\* the exception exc leaves the current call; the object stays as it is
Raise(self, exc) == [self EXCEPT !.exc = exc]

\* ---- ordering policy ----------------------------------------------------
\* self._key(value): the key extractor given to the constructor
\*   "identity"  lambda x: x  (the default)
\*   "field"     lambda i: i.key, where the value written v is an object Value
\*               whose field key is MaxVal + BuildKeys - v: the objects' fields
\*               run against the order in which the objects are written
ApplyKey(self, value) ==
    IF self._key = "identity" THEN value
    ELSE IF value = None THEN None ELSE MaxVal + BuildKeys - value

\* self._key(value) raises: None has no attribute .key
ApplyKeyRaises(self, value) == self._key = "field" /\ value = None

\* first_key <= second_key / first_key >= second_key raise TypeError when
\* one of the keys is None
CompareRaises(first_key, second_key) == first_key = None \/ second_key = None

\* mutant of _get_key_by_index: the value itself is the ordering key
_get_key_by_index_raw(self, index) ==
    ListGet(self._heap_items, index)[2]

_get_key_by_index(self, index) ==
    ApplyKey(self, ListGet(self._heap_items, index)[2])

_are_keys_in_order(self, first_key, second_key) ==
    IF self._reverse THEN first_key >= second_key
    ELSE first_key <= second_key

_are_items_in_order(self, first_index, second_index) ==
    _are_keys_in_order(self,
                       _get_key_by_index(self, first_index),
                       _get_key_by_index(self, second_index))

\* the exception _are_items_in_order raises, "" if it returns
ItemsInOrderRaises(self, first_index, second_index) ==
    IF \/ ApplyKeyRaises(self, ListGet(self._heap_items, first_index)[2])
       \/ ApplyKeyRaises(self, ListGet(self._heap_items, second_index)[2])
    THEN "AttributeError"
    ELSE IF CompareRaises(_get_key_by_index(self, first_index),
                          _get_key_by_index(self, second_index))
    THEN "TypeError"
    ELSE ""

\* ---- reordering ---------------------------------------------------------
\* mutant of _swap: the position of the second item is not recorded
_swap_one_sided(self, first_index, second_index) ==
    LET first_item  == ListGet(self._heap_items, first_index)
        second_item == ListGet(self._heap_items, second_index)
        m1 == DictSet(self._handle_to_position_mapping,
                      first_item[1], second_index)
        l1 == ListSet(self._heap_items, first_index, second_item)
        l2 == ListSet(l1, second_index, first_item)
    IN [self EXCEPT !._handle_to_position_mapping = m1, !._heap_items = l2]

_swap(self, first_index, second_index) ==
    LET first_item  == ListGet(self._heap_items, first_index)
        second_item == ListGet(self._heap_items, second_index)
        m1 == DictSet(self._handle_to_position_mapping,
                      first_item[1], second_index)
        m2 == DictSet(m1, second_item[1], first_index)
        l1 == ListSet(self._heap_items, first_index, second_item)
        l2 == ListSet(l1, second_index, first_item)
    IN [self EXCEPT !._handle_to_position_mapping = m2, !._heap_items = l2]

RECURSIVE _heapify_down(_, _)
_heapify_down(self, index) ==
    LET n == Len(self._heap_items)
        left_child  == index * 2 + 1
        right_child == index * 2 + 2
        exc1 == IF left_child < n
                THEN ItemsInOrderRaises(self, left_child, index) ELSE ""
        swap1 == IF left_child < n
                    /\ _are_items_in_order(self, left_child, index)
                 THEN left_child ELSE index
        exc2 == IF right_child < n
                THEN ItemsInOrderRaises(self, right_child, swap1) ELSE ""
        swap_position == IF right_child < n
                            /\ _are_items_in_order(self, right_child, swap1)
                         THEN right_child ELSE swap1
    IN IF exc1 # "" THEN Raise(self, exc1)
       ELSE IF exc2 # "" THEN Raise(self, exc2)
       ELSE IF swap_position # index
            THEN _heapify_down(_swap(self, index, swap_position),
                               swap_position)
            ELSE self

\* mutant of _heapify_up: an if in place of the while, one step only
_heapify_up_once(self, item_index) ==
    LET parent == (item_index - 1) \div 2
        exc == IF item_index > 0
               THEN ItemsInOrderRaises(self, item_index, parent) ELSE ""
    IN IF exc # "" THEN Raise(self, exc)
       ELSE IF item_index > 0 /\ _are_items_in_order(self, item_index, parent)
            THEN _swap(self, item_index, parent)
            ELSE self

RECURSIVE _heapify_up(_, _)
_heapify_up(self, item_index) ==
    LET parent == (item_index - 1) \div 2
        exc == IF item_index > 0
               THEN ItemsInOrderRaises(self, item_index, parent) ELSE ""
    IN IF exc # "" THEN Raise(self, exc)
       ELSE IF item_index > 0 /\ _are_items_in_order(self, item_index, parent)
            THEN _heapify_up(_swap(self, item_index, parent), parent)
            ELSE self

\* the loop of _create_heap from slot it down to slot 0
RECURSIVE CreateHeapFrom(_, _)
CreateHeapFrom(self, it) ==
    IF it < 0 \/ self.exc # "" THEN self
    ELSE CreateHeapFrom(_heapify_down(self, it), it - 1)

_create_heap(self) ==
    CreateHeapFrom(self, (Len(self._heap_items) \div 2) - 1)

\* ---- construction -------------------------------------------------------
\* items_to_add is the sequence items_to_add.items() of a dictionary: pairs
\* with pairwise distinct keys, in the dictionary's order
__init__(items_to_add, key, reverse) ==
    _create_heap(
        [_key |-> key,
         _reverse |-> reverse,
         _heap_items |-> items_to_add,
         _handle_to_position_mapping |->
             [k \in {items_to_add[i][1] : i \in DOMAIN items_to_add} |->
                 (CHOOSE i \in DOMAIN items_to_add : items_to_add[i][1] = k) - 1],
         exc |-> ""])

\* ---- public operations --------------------------------------------------
\* each returns [self |-> the object after the call, ret |-> returned tuple]
__contains__(self, key) == key \in DOMAIN self._handle_to_position_mapping

__len__(self) == Len(self._heap_items)

get_items(self) == self._heap_items

__getitem__(self, key) ==
    IF key \notin DOMAIN self._handle_to_position_mapping
    THEN [self |-> Raise(self, "KeyError"), ret |-> <<>>]
    ELSE LET index == self._handle_to_position_mapping[key]
         IN [self |-> self, ret |-> <<ListGet(self._heap_items, index)[2]>>]

\* mutant of _modify: the new value is stored only on the way down
_modify_forgets(self, item_handle, new_value) ==
    LET index == self._handle_to_position_mapping[item_handle]
        old_value == ListGet(self._heap_items, index)[2]
        old_key == ApplyKey(self, old_value)
        new_key == ApplyKey(self, new_value)
        s1 == [self EXCEPT !._heap_items =
                   ListSet(@, index, <<item_handle, new_value>>)]
    IN IF _are_keys_in_order(self, old_key, new_key)
       THEN _heapify_down(s1, index)
       ELSE _heapify_up(self, index)

\* mutant of _modify: the two directions are exchanged
_modify_wrong_way(self, item_handle, new_value) ==
    LET index == self._handle_to_position_mapping[item_handle]
        old_value == ListGet(self._heap_items, index)[2]
        old_key == ApplyKey(self, old_value)
        new_key == ApplyKey(self, new_value)
        s1 == [self EXCEPT !._heap_items =
                   ListSet(@, index, <<item_handle, new_value>>)]
    IN IF _are_keys_in_order(self, old_key, new_key)
       THEN _heapify_up(s1, index)
       ELSE _heapify_down(s1, index)

_modify(self, item_handle, new_value) ==
    LET index == self._handle_to_position_mapping[item_handle]
        old_value == ListGet(self._heap_items, index)[2]
        old_key == ApplyKey(self, old_value)
        new_key == ApplyKey(self, new_value)
        s1 == [self EXCEPT !._heap_items =
                   ListSet(@, index, <<item_handle, new_value>>)]
    IN IF ApplyKeyRaises(self, old_value) \/ ApplyKeyRaises(self, new_value)
       THEN Raise(self, "AttributeError")
       ELSE IF CompareRaises(old_key, new_key) THEN Raise(s1, "TypeError")
       ELSE IF _are_keys_in_order(self, old_key, new_key)
            THEN _heapify_down(s1, index)
            ELSE _heapify_up(s1, index)

_add_item(self, key, new_value) ==
    LET l1 == Append(self._heap_items, <<key, new_value>>)
        s1 == [self EXCEPT !._heap_items = l1,
                           !._handle_to_position_mapping =
                               DictSet(@, key, Len(l1) - 1)]
    IN _heapify_up(s1, Len(l1) - 1)

__setitem__(self, key, new_value) ==
    IF __contains__(self, key) THEN _modify(self, key, new_value)
    ELSE _add_item(self, key, new_value)

\* mutant of __delitem__: an absent key is looked up with a default of -1 and
\* the last item is removed instead of raising KeyError
__delitem__default(self, key) ==
    IF self._heap_items = <<>> THEN Raise(self, "KeyError")
    ELSE LET item_index ==
                 IF key \in DOMAIN self._handle_to_position_mapping
                 THEN self._handle_to_position_mapping[key] ELSE -1
             gone == ListGet(self._heap_items, item_index)[1]
             s1 == _swap(self, item_index, -1)
             s2 == [s1 EXCEPT !._handle_to_position_mapping = DictDel(@, gone)]
             s3 == [s2 EXCEPT !._heap_items = ListDelLast(@)]
         IN _heapify_down(s3, IF item_index < 0 THEN Len(s3._heap_items)
                                ELSE item_index)

\* mutant of __delitem__: the slot of the key is not used and the first item
\* is removed
__delitem__first(self, key) ==
    IF key \notin DOMAIN self._handle_to_position_mapping
    THEN Raise(self, "KeyError")
    ELSE LET item_index == 0
             s1 == _swap(self, item_index, -1)
             s2 == [s1 EXCEPT !._handle_to_position_mapping =
                        DictDel(@, ListGet(s1._heap_items, -1)[1])]
             s3 == [s2 EXCEPT !._heap_items = ListDelLast(@)]
         IN _heapify_down(s3, item_index)

__delitem__(self, key) ==
    IF key \notin DOMAIN self._handle_to_position_mapping
    THEN Raise(self, "KeyError")
    ELSE LET item_index == self._handle_to_position_mapping[key]
             s1 == _swap(self, item_index, -1)
             s2 == [s1 EXCEPT !._handle_to_position_mapping = DictDel(@, key)]
             s3 == [s2 EXCEPT !._heap_items = ListDelLast(@)]
         IN _heapify_down(s3, item_index)

\* mutant of pop_first: the emptiness test is off by one
pop_first_off_by_one(self) ==
    IF Len(self._heap_items) <= 1
    THEN [self |-> self, ret |-> <<None, None>>]
    ELSE LET top_item == ListGet(self._heap_items, 0)
             s1 == _swap(self, 0, -1)
             s2 == [s1 EXCEPT !._handle_to_position_mapping =
                        DictDel(@, ListGet(s1._heap_items, -1)[1])]
             s3 == [s2 EXCEPT !._heap_items = ListDelLast(@)]
         IN [self |-> _heapify_down(s3, 0), ret |-> top_item]

pop_first(self) ==
    IF self._heap_items = <<>>
    THEN [self |-> self, ret |-> <<None, None>>]
    ELSE LET top_item == ListGet(self._heap_items, 0)
             s1 == _swap(self, 0, -1)
             s2 == [s1 EXCEPT !._handle_to_position_mapping =
                        DictDel(@, ListGet(s1._heap_items, -1)[1])]
             s3 == [s2 EXCEPT !._heap_items = ListDelLast(@)]
         IN [self |-> _heapify_down(s3, 0), ret |-> top_item]

\* mutant of update: the loop returns after its first pair
update_returns_early(self, new_items) ==
    IF new_items = <<>> THEN self
    ELSE LET key == Head(new_items)[1]
             new_value == Head(new_items)[2]
         IN IF __contains__(self, key)
            THEN _modify(self, key, new_value)
            ELSE _add_item(self, key, new_value)

\* new_items is the sequence new_items.items() of the dictionary
RECURSIVE update(_, _)
update(self, new_items) ==
    IF new_items = <<>> \/ self.exc # "" THEN self
    ELSE LET key == Head(new_items)[1]
             new_value == Head(new_items)[2]
         IN update(IF __contains__(self, key)
                   THEN _modify(self, key, new_value)
                   ELSE _add_item(self, key, new_value),
                   Tail(new_items))

\* ---- comparison of heap objects --------------------------------------------
\* IndexedHeap defines neither __eq__ nor __ne__, so the ones of object apply:
\* a == b is a is b. Objects are named by their identities.
__eq__(self_id, other_id) == self_id = other_id

__ne__(self_id, other_id) == ~ __eq__(self_id, other_id)

\* ---- the sort() generator ------------------------------------------------
\* sort(heap): the call only creates the generator, no line of its body runs.
\* gen.pc is "none" while there is no generator, "created" before its first
\* resumption, "yielded" while it is suspended at the yield, "done" once it has
\* returned; gen.items is the heap's item list when sort was called and
\* gen.out the pairs yielded so far.
sort(self) == [pc |-> "created", items |-> get_items(self), out |-> <<>>]

\* mutant of sort_next: the first item is read and left in the heap
sort_next_peeks(self, g) ==
    IF self._heap_items = <<>>
    THEN [self |-> self, gen |-> [g EXCEPT !.pc = "done"], exc |-> ""]
    ELSE [self |-> self,
          gen  |-> [g EXCEPT !.pc = "yielded",
                             !.out = Append(@, ListGet(self._heap_items, 0))],
          exc  |-> ""]

\* one resumption of the generator (next() by the consumer): it runs from
\* where it is suspended to the next yield or to its end
sort_next(self, g) ==
    LET r == pop_first(self)
    IN [self |-> r.self,
        gen  |-> IF r.self.exc # "" THEN [g EXCEPT !.pc = "done"]
                 ELSE IF r.ret[1] # None
                 THEN [g EXCEPT !.pc = "yielded", !.out = Append(@, r.ret)]
                 ELSE [g EXCEPT !.pc = "done"],
        exc  |-> r.self.exc]

\* ---- iteration --------------------------------------------------------------
\* iter(heap): the generator expression evaluates self.get_items() at once and
\* takes the iterator of that list, which is the heap's own list, not a copy;
\* no item is read yet. items is the list as it is at that moment, pos the
\* iterator's index into the live list, out the items produced so far.
__iter__(self) ==
    [pc |-> "created", items |-> get_items(self), out |-> <<>>, pos |-> 0]

\* mutant of iter_next: the iteration takes its items out of the heap
iter_next_draining(self, g) ==
    IF self._heap_items # <<>>
    THEN [self |-> pop_first(self).self,
          gen  |-> [g EXCEPT !.pc = "yielded",
                             !.out = Append(@, pop_first(self).ret),
                             !.pos = @ + 1]]
    ELSE [self |-> self, gen |-> [g EXCEPT !.pc = "done"]]

\* one resumption of the generator: the list iterator reads the live list at
\* its index, or ends when the index has reached the length of the list
iter_next(self, g) ==
    IF g.pos < Len(self._heap_items)
    THEN [self |-> self,
          gen  |-> [g EXCEPT !.pc = "yielded",
                             !.out = Append(@, ListGet(self._heap_items, g.pos)),
                             !.pos = @ + 1]]
    ELSE [self |-> self, gen |-> [g EXCEPT !.pc = "done"]]

\* ---- state ----------------------------------------------------------------
VARIABLES
    _heap_items,                  \* list of (key, value) in heap order
    _handle_to_position_mapping,  \* dict: key -> index in _heap_items
    _key,                         \* the key extractor
    _reverse,                     \* TRUE for a max-heap
    last,                         \* the client's latest call on the heap
    gen,                          \* the generator returned by sort(heap)
    ncalls,                       \* calls made so far by the client of SpecDeep
    sift,                         \* the sift of the call in progress (SpecSteps)
    dijkstra                      \* the frame of dijkstra_shortest_paths

vars == <<_heap_items, _handle_to_position_mapping, _key, _reverse,
          last, gen, ncalls, sift, dijkstra>>

\* the heap object in the current state
heap ==
    [_heap_items |-> _heap_items,
     _handle_to_position_mapping |-> _handle_to_position_mapping,
     _key |-> _key, _reverse |-> _reverse, exc |-> ""]

\* the heap object becomes s
Becomes(s) ==
    /\ _heap_items' = s._heap_items
    /\ _handle_to_position_mapping' = s._handle_to_position_mapping
    /\ _key' = s._key
    /\ _reverse' = s._reverse

Call(op, args, ret, exc) == [op |-> op, args |-> args, ret |-> ret, exc |-> exc]

NoGen == [pc |-> "none", items |-> <<>>, out |-> <<>>]

\* no call is in progress. While one is, sift.pc is "down" in an activation
\* of _heapify_down(sift.index) and "up" at the loop test of
\* _heapify_up(sift.index); sift.it is the loop variable of _create_heap, -1
\* outside of it.
NoSift == [pc |-> "idle", index |-> 0, it |-> -1]

\* dijkstra_shortest_paths is not running. While it is, dijkstra holds its
\* arguments and locals (visit_queue is the heap of the state), the items the
\* generator of get_edges_from has still to produce (edges), and the nodes
\* popped so far (popped); pc is "pop" before a call of pop_first, "scan" at
\* the head of the for loop and "return" at the return statement.
NoRun ==
    [pc |-> "none", adj_list |-> EmptyDict, node_from |-> None,
     infinity_value |-> 0, distances |-> <<>>, next_edge |-> None,
     distance |-> None, edges |-> <<>>, popped |-> <<>>]

\* the item lists of the dictionaries over keys K and values V with at most n
\* entries: sequences of (key, value) pairs with pairwise distinct keys
RECURSIVE Dicts(_, _, _)
Dicts(K, V, n) ==
    IF n = 0 THEN {<<>>}
    ELSE LET shorter == Dicts(K, V, n - 1)
         IN shorter \cup
            { Append(d[1], <<d[2], d[3]>>) :
                d \in { x \in shorter \X K \X V :
                          /\ Len(x[1]) = n - 1
                          /\ \A i \in DOMAIN x[1] : x[1][i][1] # x[2] } }

\* the dictionaries {K[1]: v1, K[2]: v2, ..., K[n]: vn} over the key list K
OrderedDicts(K, V) ==
    { [i \in DOMAIN K |-> <<K[i], f[i]>>] : f \in [DOMAIN K -> V] }

\* the keys of a dictionary
ItemKeysOf(items) == {items[i][1] : i \in DOMAIN items}

\* heap = IndexedHeap(items_to_add, key, reverse)
Construct(items_to_add, key, reverse) ==
    LET s == __init__(items_to_add, key, reverse)
    IN /\ _heap_items = s._heap_items
       /\ _handle_to_position_mapping = s._handle_to_position_mapping
       /\ _key = s._key
       /\ _reverse = s._reverse
       /\ last = Call("__init__", items_to_add, <<>>, s.exc)
       /\ gen = NoGen
       /\ ncalls = 0
       /\ sift = NoSift
       /\ dijkstra = NoRun

\* ---- actions: the calls a client makes -------------------------------------
Len_ ==
    /\ last' = Call("__len__", <<>>, <<__len__(heap)>>, "")
    /\ UNCHANGED <<_heap_items, _handle_to_position_mapping, _key, _reverse, gen>>

Contains(key) ==
    /\ last' = Call("__contains__", <<key>>, <<__contains__(heap, key)>>, "")
    /\ UNCHANGED <<_heap_items, _handle_to_position_mapping, _key, _reverse, gen>>

GetItem(key) ==
    LET r == __getitem__(heap, key)
    IN /\ Becomes(r.self)
       /\ last' = Call("__getitem__", <<key>>, r.ret, r.self.exc)
       /\ UNCHANGED gen

SetItem(key, new_value) ==
    LET s == __setitem__(heap, key, new_value)
    IN /\ Becomes(s)
       /\ last' = Call("__setitem__", <<key, new_value>>, <<>>, s.exc)
       /\ UNCHANGED gen

DelItem(key) ==
    LET s == __delitem__(heap, key)
    IN /\ Becomes(s)
       /\ last' = Call("__delitem__", <<key>>, <<>>, s.exc)
       /\ UNCHANGED gen

PopFirst ==
    LET r == pop_first(heap)
    IN /\ Becomes(r.self)
       /\ last' = Call("pop_first", <<>>, r.ret, r.self.exc)
       /\ UNCHANGED gen

Update(new_items) ==
    LET s == update(heap, new_items)
    IN /\ Becomes(s)
       /\ last' = Call("update", new_items, <<>>, s.exc)
       /\ UNCHANGED gen

GetItems ==
    /\ last' = Call("get_items", <<>>, <<get_items(heap)>>, "")
    /\ UNCHANGED <<_heap_items, _handle_to_position_mapping, _key, _reverse, gen>>

\* g = iter(heap)
Iter ==
    /\ gen.pc \in {"none", "done"}
    /\ gen' = __iter__(heap)
    /\ UNCHANGED <<_heap_items, _handle_to_position_mapping, _key, _reverse, last>>

\* next(g) on the generator of iter(heap)
IterNext ==
    /\ gen.pc \in {"created", "yielded"}
    /\ LET r == iter_next(heap, gen)
       IN /\ Becomes(r.self)
          /\ gen' = r.gen
    /\ UNCHANGED last

\* g = sort(heap)
Sort ==
    /\ gen.pc \in {"none", "done"}
    /\ gen' = sort(heap)
    /\ UNCHANGED <<_heap_items, _handle_to_position_mapping, _key, _reverse, last>>

\* next(g)
SortNext ==
    /\ gen.pc \in {"created", "yielded"}
    /\ LET r == sort_next(heap, gen)
       IN /\ Becomes(r.self)
          /\ gen' = r.gen
    /\ UNCHANGED last

\* identities of the object held in the variables and of a second object
HeapId == "heap"

OtherId == "other"

\* heap == other and heap != other, where other is heap itself (same) or a
\* second object, IndexedHeap(other_items, reverse=...)
Eq(same, other_items) ==
    LET other == IF same THEN heap ELSE __init__(other_items, _key, _reverse)
        other_id == IF same THEN HeapId ELSE OtherId
    IN /\ last' = Call("__eq__", <<other_id, other._heap_items>>,
                       <<__eq__(HeapId, other_id)>>, "")
       /\ UNCHANGED <<_heap_items, _handle_to_position_mapping, _key, _reverse, gen>>

Ne(same, other_items) ==
    LET other == IF same THEN heap ELSE __init__(other_items, _key, _reverse)
        other_id == IF same THEN HeapId ELSE OtherId
    IN /\ last' = Call("__ne__", <<other_id, other._heap_items>>,
                       <<__ne__(HeapId, other_id)>>, "")
       /\ UNCHANGED <<_heap_items, _handle_to_position_mapping, _key, _reverse, gen>>

\* ---- Spec: any sequence of single-key calls on any constructed heap -----------
InitDicts == Dicts(Keys, Vals, NumKeys + 1)

Init ==
    \E items_to_add \in InitDicts, reverse \in BOOLEAN :
        Construct(items_to_add, "identity", reverse)

\* a call of a client whose calls are not counted
Free == UNCHANGED <<ncalls, sift, dijkstra>>

\* one more of the MaxCalls calls of the client of SpecDeep
Counted ==
    ncalls < MaxCalls /\ ncalls' = ncalls + 1 /\ UNCHANGED <<sift, dijkstra>>

Next ==
    \/ Len_ /\ Free
    \/ \E key \in Keys : Contains(key) /\ Free
    \/ \E key \in Keys : GetItem(key) /\ Free
    \/ \E key \in Keys, new_value \in Vals : SetItem(key, new_value) /\ Free
    \/ \E key \in Keys : DelItem(key) /\ Free
    \/ PopFirst /\ Free

Spec == Init /\ [][Next]_vars

\* ---- SpecDeep: a client makes MaxCalls calls on a heap of DeepKeys items ------
DeepDicts == OrderedDicts([i \in 1..DeepKeys |-> i], Vals)

InitDeep ==
    \E items_to_add \in DeepDicts, reverse \in BOOLEAN :
        Construct(items_to_add, "identity", reverse)

NextDeep ==
    \/ \E key \in 1..DeepKeys, new_value \in Vals :
           Counted /\ SetItem(key, new_value)
    \/ \E key \in 1..DeepKeys : Counted /\ DelItem(key)
    \/ Counted /\ PopFirst

SpecDeep == InitDeep /\ [][NextDeep]_vars

\* ---- SpecSort: a constructed heap is drained through sort() ------------------
NextSort ==
    \/ Sort /\ Free
    \/ SortNext /\ Free

SpecSort == Init /\ [][NextSort]_vars

\* ---- SpecUpsert: heap = IndexedHeap(d), assignments, then one update() ---------
UpdateDicts == Dicts(Keys, Vals, MaxUpd)

\* the dictionaries written {None: a}, {None: a, 1: b}, {None: a, 1: b, 2: c}, ...
KeyList == <<None>> \o [i \in 1..NumKeys |-> i]

PrefixDicts ==
    UNION { OrderedDicts(SubSeq(KeyList, 1, n), Vals) : n \in 0..Len(KeyList) }

InitUpsert ==
    \E items_to_add \in PrefixDicts, reverse \in BOOLEAN :
        Construct(items_to_add, "identity", reverse)

NextUpsert ==
    \/ \E key \in Keys, new_value \in Vals :
           last.op # "update" /\ SetItem(key, new_value) /\ Free
    \/ \E new_items \in UpdateDicts :
           last.op = "__init__" /\ Update(new_items) /\ Free

SpecUpsert == InitUpsert /\ [][NextUpsert]_vars

\* ---- SpecEq: a constructed heap is compared with itself and with others -----
NextEq ==
    \/ \E same \in BOOLEAN, other_items \in PrefixDicts :
           Eq(same, other_items) /\ Free
    \/ \E same \in BOOLEAN, other_items \in PrefixDicts :
           Ne(same, other_items) /\ Free

SpecEq == Init /\ [][NextEq]_vars

\* ---- SpecBuild: one map, three ways of building its heap ---------------------
\* the maps {1: v1, 2: v2, ..., n: vn} with pairwise distinct values
BuildDicts ==
    { d \in UNION { OrderedDicts([i \in 1..n |-> i], 1..BuildKeys) :
                      n \in 0..BuildKeys } :
        \A i, j \in DOMAIN d : d[i][2] = d[j][2] => i = j }

\* heap = IndexedHeap(d, reverse=...), or heap = IndexedHeap(reverse=...)
InitBuild ==
    \E items_to_add \in BuildDicts, reverse \in BOOLEAN :
        Construct(items_to_add, "identity", reverse)

\* on the empty heap: heap.update(d), or heap[k] = v for each pair of d in turn
NextBuild ==
    \/ \E new_items \in BuildDicts :
           /\ last.op = "__init__" /\ last.args = <<>>
           /\ Update(new_items) /\ Free
    \/ \E new_value \in 1..BuildKeys :
           /\ \/ last.op = "__init__" /\ last.args = <<>>
              \/ last.op = "__setitem__"
           /\ Len(_heap_items) < BuildKeys
           /\ \A i \in DOMAIN _heap_items : _heap_items[i][2] # new_value
           /\ SetItem(Len(_heap_items) + 1, new_value) /\ Free

SpecBuild == InitBuild /\ [][NextBuild]_vars

\* ---- SpecQuery: deletions, then queries and iterations ------------------------
NextQuery ==
    \/ \E key \in Keys :
           /\ gen.pc = "none" /\ last.op \in {"__init__", "__delitem__"}
           /\ DelItem(key) /\ Free
    \/ Len_ /\ Free
    \/ \E key \in Keys : Contains(key) /\ Free
    \/ \E key \in Keys : GetItem(key) /\ Free
    \/ GetItems /\ Free
    \/ Iter /\ Free
    \/ IterNext /\ Free

SpecQuery == InitUpsert /\ [][NextQuery]_vars

\* ---- SpecKey: heaps ordered by a field of their values -----------------------
\* heap = IndexedHeap(d, key=lambda i: i.key, reverse=...)
InitKey ==
    \E items_to_add \in BuildDicts, reverse \in BOOLEAN :
        Construct(items_to_add, "field", reverse)

\* one assignment on the constructed heap, then pops
NextKey ==
    \/ \E key \in 1..BuildKeys, new_value \in 1..BuildKeys :
           last.op = "__init__" /\ SetItem(key, new_value) /\ Free
    \/ PopFirst /\ Free

SpecKey == InitKey /\ [][NextKey]_vars

\* ---- SpecFail: calls that may fail ---------------------------------------------
\* values, among them None, which no comparison accepts
FailVals == Vals \cup {None}

FailDicts == Dicts(Keys, FailVals, MaxUpd)

NextFail ==
    \/ \E key \in Keys : GetItem(key) /\ Free
    \/ \E key \in Keys, new_value \in FailVals : SetItem(key, new_value) /\ Free
    \/ \E key \in Keys : DelItem(key) /\ Free
    \/ PopFirst /\ Free
    \/ \E new_items \in FailDicts :
           last.op = "__init__" /\ Update(new_items) /\ Free

SpecFail == InitUpsert /\ [][NextFail]_vars

\* ---- SpecOrder: one call on a heap of DeepKeys items, and its drain -------------
\* update() with pairs for a present key and for a new key
OrderDicts == Dicts({1, DeepKeys + 1}, Vals, MaxUpd)

NextOrder ==
    \/ \E key \in 1..(DeepKeys + 1), new_value \in Vals :
           last.op = "__init__" /\ SetItem(key, new_value) /\ Free
    \/ \E new_items \in OrderDicts :
           last.op = "__init__" /\ Update(new_items) /\ Free
    \/ last.op \in {"__init__", "pop_first"} /\ PopFirst /\ Free

SpecOrder == InitDeep /\ [][NextOrder]_vars

\* ---- SpecSteps: the sifts, one comparison round at a time ----------------------
\* the slot an activation of _heapify_down(index) settles on: the left child
\* if it is in order before index, then the right child if it is in order
\* before that
swap_position(self, index) ==
    LET n == Len(self._heap_items)
        left_child  == index * 2 + 1
        right_child == index * 2 + 2
        first == IF left_child < n
                    /\ _are_items_in_order(self, left_child, index)
                 THEN left_child ELSE index
    IN IF right_child < n /\ _are_items_in_order(self, right_child, first)
       THEN right_child ELSE first

\* mutant of heapify_up_continues: the loop test without item_index > 0
heapify_up_continues_unguarded(self, item_index) ==
    _are_items_in_order(self, item_index, (item_index - 1) \div 2)

\* the loop test of _heapify_up
heapify_up_continues(self, item_index) ==
    /\ item_index > 0
    /\ _are_items_in_order(self, item_index, (item_index - 1) \div 2)

\* the sift that begins at slot index: _heapify_down or _heapify_up
Sifting(pc, index) == [pc |-> pc, index |-> index, it |-> -1]

\* one activation of _heapify_down: it swaps and calls itself on the slot it
\* swapped with, or it returns, and with it every activation that called it;
\* _create_heap then takes the next slot of its loop
DownStep ==
    /\ sift.pc = "down"
    /\ LET swap_to == swap_position(heap, sift.index)
       IN IF swap_to # sift.index
          THEN /\ Becomes(_swap(heap, sift.index, swap_to))
               /\ sift' = [sift EXCEPT !.index = swap_to]
          ELSE /\ UNCHANGED <<_heap_items, _handle_to_position_mapping,
                               _key, _reverse>>
               /\ sift' = IF sift.it > 0
                           THEN [pc |-> "down", index |-> sift.it - 1,
                                 it |-> sift.it - 1]
                           ELSE NoSift
    /\ UNCHANGED <<last, gen, ncalls, dijkstra>>

\* one test of the while loop of _heapify_up, and its body if the test holds
UpStep ==
    /\ sift.pc = "up"
    /\ IF heapify_up_continues(heap, sift.index)
       THEN /\ Becomes(_swap(heap, sift.index, (sift.index - 1) \div 2))
            /\ sift' = [sift EXCEPT !.index = (sift.index - 1) \div 2]
       ELSE /\ UNCHANGED <<_heap_items, _handle_to_position_mapping,
                            _key, _reverse>>
            /\ sift' = NoSift
    /\ UNCHANGED <<last, gen, ncalls, dijkstra>>

\* heap[key] = new_value up to the call of the sift
StartSet(key, new_value) ==
    /\ sift.pc = "idle"
    /\ IF __contains__(heap, key)
       THEN LET index == _handle_to_position_mapping[key]
                old_key == ApplyKey(heap, ListGet(_heap_items, index)[2])
                new_key == ApplyKey(heap, new_value)
            IN /\ _heap_items' = ListSet(_heap_items, index, <<key, new_value>>)
               /\ UNCHANGED _handle_to_position_mapping
               /\ sift' = IF _are_keys_in_order(heap, old_key, new_key)
                           THEN Sifting("down", index)
                           ELSE Sifting("up", index)
       ELSE /\ _heap_items' = Append(_heap_items, <<key, new_value>>)
            /\ _handle_to_position_mapping' =
                   DictSet(_handle_to_position_mapping, key, Len(_heap_items))
            /\ sift' = Sifting("up", Len(_heap_items))
    /\ last' = Call("__setitem__", <<key, new_value>>, <<>>, "")
    /\ UNCHANGED <<_key, _reverse, gen, ncalls, dijkstra>>

\* del heap[key] of a present key up to the call of the sift
StartDel(key) ==
    /\ sift.pc = "idle"
    /\ __contains__(heap, key)
    /\ LET item_index == _handle_to_position_mapping[key]
           s1 == _swap(heap, item_index, -1)
       IN /\ _handle_to_position_mapping' =
                 DictDel(s1._handle_to_position_mapping, key)
          /\ _heap_items' = ListDelLast(s1._heap_items)
          /\ sift' = Sifting("down", item_index)
    /\ last' = Call("__delitem__", <<key>>, <<>>, "")
    /\ UNCHANGED <<_key, _reverse, gen, ncalls, dijkstra>>

\* heap.pop_first() on a non-empty heap up to the call of the sift
StartPop ==
    /\ sift.pc = "idle"
    /\ _heap_items # <<>>
    /\ LET top_item == ListGet(_heap_items, 0)
           s1 == _swap(heap, 0, -1)
       IN /\ _handle_to_position_mapping' =
                 DictDel(s1._handle_to_position_mapping, top_item[1])
          /\ _heap_items' = ListDelLast(s1._heap_items)
          /\ last' = Call("pop_first", <<>>, top_item, "")
    /\ sift' = Sifting("down", 0)
    /\ UNCHANGED <<_key, _reverse, gen, ncalls, dijkstra>>

\* next(g) on the generator of sort(heap) up to the call of the sift inside
\* pop_first; the pair is handed to the consumer when that sift has ended
SortResume ==
    /\ sift.pc = "idle"
    /\ gen.pc \in {"created", "yielded"}
    /\ IF _heap_items = <<>>
       THEN /\ gen' = [gen EXCEPT !.pc = "done"]
            /\ UNCHANGED <<_heap_items, _handle_to_position_mapping, sift>>
       ELSE LET top_item == ListGet(_heap_items, 0)
                s1 == _swap(heap, 0, -1)
            IN /\ _handle_to_position_mapping' =
                      DictDel(s1._handle_to_position_mapping, top_item[1])
               /\ _heap_items' = ListDelLast(s1._heap_items)
               /\ sift' = Sifting("down", 0)
               /\ gen' = IF top_item[1] # None
                          THEN [gen EXCEPT !.pc = "yielded",
                                           !.out = Append(@, top_item)]
                          ELSE [gen EXCEPT !.pc = "done"]
    /\ UNCHANGED <<_key, _reverse, last, ncalls, dijkstra>>

\* the maps {1: v1, ..., n: vn}, n = BuildKeys, values equal or not
StepDicts == OrderedDicts([i \in 1..BuildKeys |-> i], Vals)

\* IndexedHeap(items_to_add, reverse=...) at the first line of _create_heap:
\* the items are stored and indexed in the order of the dictionary
InitSteps ==
    \E items_to_add \in StepDicts, reverse \in BOOLEAN :
        LET it == (Len(items_to_add) \div 2) - 1
        IN /\ _heap_items = items_to_add
           /\ _handle_to_position_mapping =
                  [k \in ItemKeysOf(items_to_add) |->
                      (CHOOSE i \in DOMAIN items_to_add :
                           items_to_add[i][1] = k) - 1]
           /\ _key = "identity"
           /\ _reverse = reverse
           /\ last = Call("__init__", items_to_add, <<>>, "")
           /\ gen = NoGen
           /\ ncalls = 0
           /\ sift = IF it >= 0 THEN [pc |-> "down", index |-> it, it |-> it]
                      ELSE NoSift
           /\ dijkstra = NoRun

\* the construction runs; then one call, step by step, or a drain by sort
NextSteps ==
    \/ DownStep
    \/ UpStep
    \/ \E key \in 1..(BuildKeys + 1), new_value \in Vals :
           last.op = "__init__" /\ gen.pc = "none" /\ StartSet(key, new_value)
    \/ \E key \in 1..BuildKeys :
           last.op = "__init__" /\ gen.pc = "none" /\ StartDel(key)
    \/ last.op = "__init__" /\ gen.pc = "none" /\ StartPop
    \/ last.op = "__init__" /\ sift.pc = "idle" /\ gen.pc = "none" /\ Sort /\ Free
    \/ SortResume

\* a method that was called runs on, and the consumer of sort(heap) takes
\* every item
SpecSteps ==
    /\ InitSteps
    /\ [][NextSteps]_vars
    /\ WF_vars(DownStep)
    /\ WF_vars(UpStep)
    /\ WF_vars(SortResume)

\* ---- SpecFixture: the heap of the test fixture --------------------------------
\* DefaultHeapFixture.test_values
test_values == <<<<1, 4>>, <<2, 2>>, <<3, 3>>, <<4, 1>>, <<5, 5>>>>

FixtureKeys == {test_values[i][1] : i \in DOMAIN test_values}

InitFixture == \E reverse \in BOOLEAN : Construct(test_values, "identity", reverse)

\* deletions and decrease-key assignments (heap[k] = 0), then a drain
NextFixture ==
    \/ \E key \in FixtureKeys : gen.pc = "none" /\ DelItem(key) /\ Free
    \/ \E key \in FixtureKeys : gen.pc = "none" /\ SetItem(key, 0) /\ Free
    \/ Sort /\ Free
    \/ SortNext /\ Free

SpecFixture == InitFixture /\ [][NextFixture]_vars

\* ---- examples/dijkstra.py -------------------------------------------------------
DjNodes  == 3       \* the nodes of the graphs of SpecDijkstra: 1..DjNodes
DjWeight == 1       \* the edge weights of those graphs: 0..DjWeight

\* d[k] and d[k] = x on the item list of a dictionary: an assignment to a
\* present key keeps the key's place, one to a new key appends it
DictItemsGet(items, k) ==
    items[CHOOSE i \in DOMAIN items : items[i][1] = k][2]

DictItemsSet(items, k, x) ==
    IF \E i \in DOMAIN items : items[i][1] = k
    THEN [i \in DOMAIN items |-> IF items[i][1] = k THEN <<k, x>> ELSE items[i]]
    ELSE Append(items, <<k, x>>)

\* d.setdefault(k, []).append(x)
SetDefaultAppend(d, k, x) ==
    DictSet(d, k, IF k \in DOMAIN d THEN Append(d[k], x) ELSE <<x>>)

add_symetric_edge(adj_list, node_from, node_to, weight) ==
    SetDefaultAppend(
        SetDefaultAppend(adj_list, node_from, <<node_to, weight>>),
        node_to, <<node_from, weight>>)

\* the pairs the generator of get_edges_from produces, in their order
get_edges_from(adj_list, node_from) ==
    IF node_from \notin DOMAIN adj_list THEN <<>> ELSE adj_list[node_from]

\* list(nodes) of a set of small integers: CPython walks the slots of the
\* set's table, and an integer n sits in slot n, so the list is ascending
RECURSIVE ListOfSet(_)
ListOfSet(nodes) ==
    IF nodes = {} THEN <<>>
    ELSE LET first == CHOOSE n \in nodes : \A m \in nodes : n <= m
         IN <<first>> \o ListOfSet(nodes \ {first})

get_nodes(adj_list) ==
    ListOfSet((DOMAIN adj_list) \cup
              UNION { {adj_list[node][i][1] : i \in DOMAIN adj_list[node]} :
                        node \in DOMAIN adj_list })

\* mutant of visit_edge: the neighbor's new distance is the weight of the edge
visit_edge_weight_only(self, distances, distance, edge) ==
    IF /\ __contains__(self, edge[1])
       /\ DictItemsGet(distances, edge[1]) > distance + edge[2]
    THEN [distances |-> DictItemsSet(distances, edge[1], edge[2]),
          self |-> update(self, <<<<edge[1], edge[2]>>>>),
          updated |-> TRUE]
    ELSE [distances |-> distances, self |-> self, updated |-> FALSE]

\* the body of the for loop of dijkstra_shortest_paths for one edge
visit_edge(self, distances, distance, edge) ==
    IF /\ __contains__(self, edge[1])
       /\ DictItemsGet(distances, edge[1]) > distance + edge[2]
    THEN [distances |-> DictItemsSet(distances, edge[1], distance + edge[2]),
          self |-> update(self, <<<<edge[1], distance + edge[2]>>>>),
          updated |-> TRUE]
    ELSE [distances |-> distances, self |-> self, updated |-> FALSE]

\* the pairs of distinct nodes, in the order in which the edges are added
RECURSIVE PairsFrom(_, _)
PairsFrom(u, v) ==
    IF u >= DjNodes THEN <<>>
    ELSE IF v > DjNodes THEN PairsFrom(u + 1, u + 2)
    ELSE <<<<u, v>>>> \o PairsFrom(u, v + 1)

NodePairs == PairsFrom(1, 2)

\* the graph made by one add_symetric_edge call for every pair whose weight
\* is not None, from pair i on
RECURSIVE GraphFrom(_, _, _)
GraphFrom(adj_list, weights, i) ==
    IF i > Len(NodePairs) THEN adj_list
    ELSE GraphFrom(IF weights[i] = None THEN adj_list
                   ELSE add_symetric_edge(adj_list, NodePairs[i][1],
                                          NodePairs[i][2], weights[i]),
                   weights, i + 1)

Graphs ==
    { GraphFrom(EmptyDict, weights, 1) :
        weights \in [DOMAIN NodePairs -> {None} \cup (0..DjWeight)] }

\* the values given for infinity_value: every shortest path of a graph stays
\* below the larger one, a heavy edge does not stay below the smaller one
InfinityValues == {DjWeight, (DjNodes - 1) * DjWeight + 1}

\* dijkstra_shortest_paths(adj_list, node_from, infinity_value) after
\* visit_queue = IndexedHeap(distances)
InitDijkstra ==
    \E adj_list \in Graphs, node_from \in 1..DjNodes,
       infinity_value \in InfinityValues :
        LET nodes == get_nodes(adj_list)
            distances == DictItemsSet(
                [i \in DOMAIN nodes |-> <<nodes[i], infinity_value>>],
                node_from, 0)
            s == __init__(distances, "identity", FALSE)
        IN /\ _heap_items = s._heap_items
           /\ _handle_to_position_mapping = s._handle_to_position_mapping
           /\ _key = s._key
           /\ _reverse = s._reverse
           /\ last = Call("__init__", distances, <<>>, s.exc)
           /\ gen = NoGen
           /\ ncalls = 0
           /\ sift = NoSift
           /\ dijkstra = [NoRun EXCEPT !.pc = "pop",
                                       !.adj_list = adj_list,
                                       !.node_from = node_from,
                                       !.infinity_value = infinity_value,
                                       !.distances = distances]

\* next_edge, distance = visit_queue.pop_first() and the test of the while
\* loop; for a node the generator of its edges is made
DijkstraPop ==
    /\ dijkstra.pc = "pop"
    /\ LET r == pop_first(heap)
           next_edge == r.ret[1]
           edges == get_edges_from(dijkstra.adj_list, next_edge)
       IN /\ Becomes(r.self)
          /\ last' = Call("pop_first", <<>>, r.ret, r.self.exc)
          /\ dijkstra' =
                 IF next_edge = None
                 THEN [dijkstra EXCEPT !.pc = "return",
                                       !.next_edge = next_edge,
                                       !.distance = r.ret[2]]
                 ELSE [dijkstra EXCEPT !.pc = IF edges = <<>> THEN "pop"
                                              ELSE "scan",
                                       !.next_edge = next_edge,
                                       !.distance = r.ret[2],
                                       !.edges = edges,
                                       !.popped = Append(@, next_edge)]
    /\ UNCHANGED <<gen, ncalls, sift>>

\* one round of the for loop: the next edge of the popped node
DijkstraEdge ==
    /\ dijkstra.pc = "scan"
    /\ LET edge == Head(dijkstra.edges)
           r == visit_edge(heap, dijkstra.distances, dijkstra.distance, edge)
       IN /\ Becomes(r.self)
          /\ last' = IF r.updated
                     THEN Call("update",
                               <<<<edge[1], dijkstra.distance + edge[2]>>>>,
                               <<>>, r.self.exc)
                     ELSE Call("__contains__", <<edge[1]>>,
                               <<__contains__(heap, edge[1])>>, "")
          /\ dijkstra' = [dijkstra EXCEPT
                             !.pc = IF Tail(dijkstra.edges) = <<>> THEN "pop"
                                    ELSE "scan",
                             !.distances = r.distances,
                             !.edges = Tail(@)]
    /\ UNCHANGED <<gen, ncalls, sift>>

NextDijkstra ==
    \/ DijkstraPop
    \/ DijkstraEdge

SpecDijkstra == InitDijkstra /\ [][NextDijkstra]_vars

\* ---- properties -----------------------------------------------------------
Parent(i) == (i - 1) \div 2

\* heap order of the item list of s under the ordering policy of s
HeapOrdered(s) ==
    \A i \in 1..(Len(s._heap_items) - 1) :
        _are_items_in_order(s, Parent(i), i)

ItemKeys(items) == {items[i][1] : i \in DOMAIN items}

AsSet(items) == {items[i] : i \in DOMAIN items}

\* the value stored with key k in the item list
ValueOf(items, k) == items[CHOOSE i \in DOMAIN items : items[i][1] = k][2]

\* the items of a list are in order of their values under the policy of s
SortedByValue(s, items) ==
    \A i, j \in DOMAIN items :
        i < j => _are_keys_in_order(s, ApplyKey(s, items[i][2]),
                                       ApplyKey(s, items[j][2]))

TypeOK ==
    /\ _reverse \in BOOLEAN
    /\ _key \in {"identity", "field"}
    /\ ncalls \in 0..MaxCalls
    /\ gen.pc \in {"none", "created", "yielded", "done"}

\* C1: heap-order invariant - after construction and after any sequence of
\* set, remove and pop_first every non-root slot is in order with its parent
\* (<= for a min-heap, >= for a max-heap).
C1_HeapOrder == HeapOrdered(heap)

\* the index of s and its item list describe each other
Bijective(s) ==
    /\ \A i, j \in DOMAIN s._heap_items :
           s._heap_items[i][1] = s._heap_items[j][1] => i = j
    /\ DOMAIN s._handle_to_position_mapping = ItemKeys(s._heap_items)
    /\ \A k \in DOMAIN s._handle_to_position_mapping :
           /\ s._handle_to_position_mapping[k] \in 0..(Len(s._heap_items) - 1)
           /\ s._heap_items[s._handle_to_position_mapping[k] + 1][1] = k
    /\ Cardinality(DOMAIN s._handle_to_position_mapping) = Len(s._heap_items)
    /\ __len__(s) = Len(s._heap_items)

\* C2: bijection and size invariant - after construction and after every
\* public operation every key occurs at most once in the heap array, the index
\* maps key K to slot i exactly when slot i holds K (no entry points at -1 or
\* past the end), and the number of index entries equals the length of the
\* heap array equals the reported size.
C2_Bijection == Bijective(heap)

\* the only element (which is in the last slot) has just been popped
C2_Witness ==
    /\ last.op = "pop_first"
    /\ last.ret # <<None, None>>
    /\ _heap_items = <<>>
    /\ _handle_to_position_mapping = EmptyDict

\* C3: in every non-empty reachable heap the element in slot 0 is an extremum
\* of the stored elements, and pop_first returns that pair and removes exactly
\* it, leaving every other key with its value.
C3_RootIsExtremum ==
    _heap_items # <<>> =>
        LET r == pop_first(heap)
        IN /\ r.ret = _heap_items[1]
           /\ \A i \in DOMAIN _heap_items :
                  _are_keys_in_order(heap, ApplyKey(heap, r.ret[2]),
                                     ApplyKey(heap, _heap_items[i][2]))
           /\ AsSet(r.self._heap_items) = AsSet(_heap_items) \ {r.ret}

\* C4: sort on a freshly built heap yields every input pair exactly once,
\* ordered by value (ascending for a min-heap, descending for a max-heap); the
\* number of pairs equals the input size and the heap is empty at the end.
C4_SortOfFreshHeap ==
    (gen.pc = "done" /\ last.op = "__init__"
        /\ AsSet(gen.items) = AsSet(last.args)) =>
        /\ Len(gen.out) = Len(last.args)
        /\ AsSet(gen.out) = AsSet(last.args)
        /\ SortedByValue(heap, gen.out)
        /\ _heap_items = <<>>

\* C5: a fully consumed sort(heap) yields exactly as many pairs as the heap
\* held when sort began, whatever the keys and values, and leaves size 0.
C5_DrainLength ==
    gen.pc = "done" =>
        /\ Len(gen.out) = Len(gen.items)
        /\ __len__(heap) = 0

\* C6: get(key) and remove(key) on an absent key fail with KeyError and leave
\* the heap array, the index and the size as they were; on a present key
\* neither fails.
C6_Step ==
    last'.op \in {"__getitem__", "__delitem__"} =>
        IF last'.args[1] \in ItemKeys(_heap_items)
        THEN last'.exc = ""
        ELSE /\ last'.exc = "KeyError"
             /\ _heap_items' = _heap_items
             /\ _handle_to_position_mapping' = _handle_to_position_mapping
             /\ __len__(heap)' = __len__(heap)

C6_KeyNotFound == [][C6_Step]_vars

\* remove(key) of an absent key has failed on a non-empty heap
C6_Witness ==
    /\ last.op = "__delitem__"
    /\ last.exc = "KeyError"
    /\ _heap_items # <<>>

\* C7: on an empty heap size is 0, contains(k) is false for every k and
\* pop_first returns (None, None) without raising and without changing the
\* state; pop_first never returns (None, None) while the heap is non-empty and
\* holds only non-None keys.
C7_Step ==
    /\ _heap_items = <<>> =>
          /\ last'.op = "__len__" => last'.ret = <<0>>
          /\ last'.op = "__contains__" => last'.ret = <<FALSE>>
          /\ last'.op = "pop_first" =>
                /\ last'.ret = <<None, None>>
                /\ last'.exc = ""
                /\ _heap_items' = _heap_items
                /\ _handle_to_position_mapping' = _handle_to_position_mapping
    /\ (_heap_items # <<>> /\ None \notin ItemKeys(_heap_items)
            /\ last'.op = "pop_first") =>
          last'.ret # <<None, None>>

C7_EmptyHeap == [][C7_Step]_vars

\* pop_first has returned the sentinel on a heap emptied by a remove or a pop
C7_Witness ==
    /\ last.op = "pop_first"
    /\ last.ret = <<None, None>>
    /\ last.exc = ""
    /\ _heap_items = <<>>

\* the effect of assigning the pairs of the dictionary d (distinct keys) on
\* the contents: before -> after
Upserted(before, after, d) ==
    /\ \A i \in DOMAIN d :
           /\ __contains__(after, d[i][1])
           /\ __getitem__(after, d[i][1]).ret = <<d[i][2]>>
    /\ \A k \in ItemKeys(before._heap_items) \ ItemKeys(d) :
           /\ __contains__(after, k)
           /\ __getitem__(after, k).ret = __getitem__(before, k).ret
    /\ __len__(after) = __len__(before)
           + Cardinality(ItemKeys(d) \ ItemKeys(before._heap_items))

\* C8: after set(k, v), and after the pairs applied by update, get(k) returns
\* v, contains(k) is true, every other key is still present with its previous
\* value, and the size grows by exactly 1 if k was absent and is unchanged if
\* k was present.
C8_Step ==
    /\ last'.op = "__setitem__" =>
          Upserted(heap, heap', <<<<last'.args[1], last'.args[2]>>>>)
    /\ last'.op = "update" => Upserted(heap, heap', last'.args)

C8_Upsert == [][C8_Step]_vars

\* update has applied two pairs to a heap that now holds an item for every
\* key, the two pairs among them
C8_Witness ==
    /\ last.op = "update"
    /\ last.exc = ""
    /\ Len(last.args) = 2
    /\ Len(_heap_items) = NumKeys + 1
    /\ \A i \in DOMAIN last.args :
           ValueOf(_heap_items, last.args[i][1]) = last.args[i][2]

\* C9: after remove(k) on a present key at any slot k is no longer contained,
\* the size has decreased by exactly 1 and every other key is still present
\* with its previous value; for {1:4,2:2,3:3,4:1,5:5} removing key 3 leaves
\* keys {1,2,4,5} and the drain is (4,1),(2,2),(1,4),(5,5).
C9_Step ==
    /\ (last'.op = "__delitem__" /\ last'.exc = "" /\ gen' = gen) =>
          /\ ~ __contains__(heap', last'.args[1])
          /\ __len__(heap') = __len__(heap) - 1
          /\ \A k \in ItemKeys(_heap_items) \ {last'.args[1]} :
                 /\ __contains__(heap', k)
                 /\ __getitem__(heap', k).ret = __getitem__(heap, k).ret
          /\ ItemKeys(_heap_items') = ItemKeys(_heap_items) \ {last'.args[1]}
    /\ (last.op = "__init__" /\ last'.op = "__delitem__"
            /\ last'.args = <<3>>) =>
          ItemKeys(_heap_items') = {1, 2, 4, 5}
    /\ (gen'.pc = "done" /\ ~ _reverse
            /\ AsSet(gen'.items) = {<<1, 4>>, <<2, 2>>, <<4, 1>>, <<5, 5>>}) =>
          gen'.out = <<<<4, 1>>, <<2, 2>>, <<1, 4>>, <<5, 5>>>>

C9_Removal == [][C9_Step]_vars

\* key 3 (an internal slot's neighbour in the fixture heap) was removed and
\* the heap then drained
C9_Witness ==
    /\ last.op = "__delitem__"
    /\ last.args = <<3>>
    /\ last.exc = ""
    /\ gen.pc = "done"
    /\ gen.out = <<<<4, 1>>, <<2, 2>>, <<1, 4>>, <<5, 5>>>>

\* C10: in any reachable heap state, after set(k, v) on a present or absent
\* key with key_of(v) strictly better than the ordering key of every other
\* stored element, the next pop_first returns (k, v).
C10_DecreaseKey ==
    \A k \in 1..DeepKeys, v \in Vals :
        LET s == __setitem__(heap, k, v)
        IN (/\ s.exc = ""
            /\ \A i \in DOMAIN s._heap_items :
                   s._heap_items[i][1] # k =>
                       ~ _are_keys_in_order(s, ApplyKey(s, s._heap_items[i][2]),
                                            ApplyKey(s, v))) =>
               pop_first(s).ret = <<k, v>>

\* the same pairs written in every order
Orders(d) ==
    { [i \in DOMAIN d |-> d[f[i]]] :
        f \in { g \in [DOMAIN d -> DOMAIN d] :
                  \A i, j \in DOMAIN d : g[i] = g[j] => i = j } }

SameStructure(a, b) ==
    /\ a._heap_items = b._heap_items
    /\ a._handle_to_position_mapping = b._handle_to_position_mapping

SameContents(a, b) ==
    /\ AsSet(a._heap_items) = AsSet(b._heap_items)
    /\ __len__(a) = __len__(b)
    /\ Bijective(a)
    /\ Bijective(b)

\* C11 (as stated): update with the same pairs over distinct keys in any
\* other order produces the same heap array, slot by slot, and the same index.
C11_OrderIndependent ==
    [][last'.op = "update" =>
          \A other \in Orders(last'.args) :
              LET reordered == update(heap, other)
              IN SameStructure(heap', reordered)]_vars

\* C11 (amended): update with the same pairs in any other order produces the
\* same contents - the same keys with the same values, the same size and an
\* index that matches the array - while the slot order may differ.
C11_SameContents ==
    [][last'.op = "update" =>
          \A other \in Orders(last'.args) :
              LET reordered == update(heap, other)
              IN SameContents(heap', reordered)]_vars

\* update has applied two pairs and the pair applied second lies in an
\* earlier slot than the pair applied first
C11_Witness ==
    /\ last.op = "update"
    /\ last.exc = ""
    /\ Len(last.args) = 2
    /\ _handle_to_position_mapping[last.args[2][1]]
           < _handle_to_position_mapping[last.args[1][1]]

\* C12: two distinct heap objects compare equal (==) when they hold the same
\* contents, in particular two freshly constructed empty heaps, and compare
\* unequal (!=) exactly when their contents differ.
C12_Equality ==
    (last.op \in {"__eq__", "__ne__"} /\ last.args[1] # HeapId) =>
        LET same_contents == AsSet(last.args[2]) = AsSet(_heap_items)
        IN IF last.op = "__eq__" THEN last.ret = <<same_contents>>
           ELSE last.ret = <<~ same_contents>>

\* the pairs pop_first returns until the heap is empty
RECURSIVE Drain(_)
Drain(self) ==
    IF self._heap_items = <<>> \/ self.exc # "" THEN <<>>
    ELSE LET r == pop_first(self)
         IN <<r.ret>> \o Drain(r.self)

\* the map a heap was built from, written in the order of its keys
MapOf(items) ==
    [k \in 1..Len(items) |-> <<k, ValueOf(items, k)>>]

\* C13: for every map whose values have pairwise distinct ordering keys, the
\* heap built by the constructor, the heap built by setting each pair on an
\* empty heap and the heap built by one update on an empty heap have the same
\* size, return the same value for every key, each satisfy heap order and
\* drain through pop_first to the same sequence.
C13_BuildRoutes ==
    LET d == MapOf(_heap_items)
        built == __init__(d, _key, _reverse)
    IN /\ __len__(heap) = __len__(built)
       /\ __len__(heap) = Len(d)
       /\ \A i \in DOMAIN d :
              /\ __getitem__(heap, d[i][1]).ret = <<d[i][2]>>
              /\ __getitem__(built, d[i][1]).ret = <<d[i][2]>>
       /\ HeapOrdered(heap)
       /\ HeapOrdered(built)
       /\ Drain(heap) = Drain(built)
       /\ SortedByValue(heap, Drain(heap))
       /\ Len(Drain(heap)) = Len(d)

\* the map has been built pair by pair into an array that differs from the
\* array the constructor builds from it
C13_Witness ==
    /\ last.op = "__setitem__"
    /\ Len(_heap_items) = BuildKeys
    /\ _heap_items # __init__(MapOf(_heap_items), _key, _reverse)._heap_items

\* C14: size, contains, get on a present key, items and iteration leave the
\* heap array and the index unchanged; a get or contains repeated with no
\* mutation in between returns the same result; a completed iteration has
\* produced exactly the sequence items() returns, in the same order, and an
\* iteration started after it sees the same sequence again.
C14_Step ==
    /\ (\/ last'.op \in {"__len__", "__contains__", "get_items"}
        \/ last'.op = "__getitem__" /\ last'.exc = ""
        \/ gen' # gen) =>
          /\ _heap_items' = _heap_items
          /\ _handle_to_position_mapping' = _handle_to_position_mapping
    /\ (/\ last.op \in {"__getitem__", "__contains__"}
        /\ last'.op = last.op
        /\ last'.args = last.args) =>
          /\ last'.ret = last.ret
          /\ last'.exc = last.exc
    /\ gen'.pc = "done" =>
          /\ gen'.out = get_items(heap')
          /\ gen'.out = gen'.items
    /\ (gen.pc = "done" /\ gen'.pc = "created") => gen'.items = gen.out

C14_ReadOnly == [][C14_Step]_vars

\* an iteration over a heap of at least two items has completed and a
\* query was made since the heap was last changed
C14_Witness ==
    /\ gen.pc = "done"
    /\ Len(gen.out) >= 2
    /\ last.op = "__getitem__"
    /\ last.exc = ""

\* C15: a heap constructed with a key function orders by key_of(value) and
\* never by the value itself: it is heap-ordered on key_of and its pop_first
\* drain is non-decreasing in key_of (non-increasing with reverse=True).
C15_CustomKey ==
    _key = "field" =>
        LET out == Drain(heap)
        IN /\ HeapOrdered(heap)
           /\ Len(out) = Len(_heap_items)
           /\ \A i, j \in DOMAIN out :
                  i < j => _are_keys_in_order(heap, ApplyKey(heap, out[i][2]),
                                              ApplyKey(heap, out[j][2]))

\* an assignment has left, at the root of a min-heap of three or more items,
\* the value that is the last one in the order of the values themselves
C15_Witness ==
    /\ _key = "field"
    /\ ~ _reverse
    /\ last.op = "__setitem__"
    /\ Len(_heap_items) >= 3
    /\ \A i \in DOMAIN _heap_items : _heap_items[1][2] >= _heap_items[i][2]
    /\ \E i \in DOMAIN _heap_items : _heap_items[1][2] > _heap_items[i][2]

\* C16: a public call that fails (KeyError, or a failure of the key function
\* or of a comparison during set, update, remove or pop_first) leaves the heap
\* array and the index exactly as they were before the call.
C16_FailureAtomic ==
    [][last'.exc # "" =>
          /\ _heap_items' = _heap_items
          /\ _handle_to_position_mapping' = _handle_to_position_mapping]_vars

\* C17: for every heap that satisfies heap order and every present key at any
\* slot, remove(key) - swap with the last slot, drop it, sift down only -
\* yields a heap that satisfies heap order.
C17_RemoveSiftsDown ==
    [][(/\ HeapOrdered(heap)
        /\ last'.op = "__delitem__"
        /\ last'.exc = "") => HeapOrdered(heap')]_vars

\* C18: construction from any input order yields heap order, and on every
\* heap that satisfies heap order set on a present key, set on an absent key,
\* update and pop_first each yield a heap that satisfies heap order.
C18_Step ==
    (/\ HeapOrdered(heap)
     /\ last'.op \in {"__setitem__", "update", "pop_first"}
     /\ last'.exc = "") => HeapOrdered(heap')

C18_OrderRestored ==
    /\ [](last.op = "__init__" => HeapOrdered(heap))
    /\ [][C18_Step]_vars

\* an assignment has raised the value of a present key of a min-heap and the
\* item has moved below a parent of smaller value, two levels down
C18_Witness ==
    /\ last.op = "__setitem__"
    /\ ~ _reverse
    /\ Len(_heap_items) = DeepKeys
    /\ _handle_to_position_mapping[last.args[1]] >= 3
    /\ last.args[2] = MaxVal
    /\ ListGet(_heap_items,
               Parent(_handle_to_position_mapping[last.args[1]]))[2] < MaxVal

\* C19: every operation terminates on every heap state, equal ordering keys
\* included - an activation of sift-down moves to a strictly larger slot
\* inside the array, a round of sift-up to a strictly smaller slot that is not
\* below 0, construction takes the internal slots one after the other down
\* to slot 0, every item sort takes leaves the heap one item shorter, and
\* every sift and every fully consumed sort comes to its end.
C19_Step ==
    /\ (sift.pc = "down" /\ sift'.pc = "down" /\ sift'.it = sift.it) =>
          /\ sift'.index > sift.index
          /\ sift'.index < Len(_heap_items)
    /\ (sift.pc = "down" /\ sift'.pc = "down" /\ sift'.it # sift.it) =>
          /\ sift'.it = sift.it - 1
          /\ sift'.it >= 0
          /\ sift'.index = sift'.it
    /\ (sift.pc = "up" /\ sift'.pc = "up") =>
          /\ sift'.index < sift.index
          /\ sift'.index >= 0
    /\ (gen.pc \in {"created", "yielded"} /\ gen' # gen
            /\ gen'.pc = "yielded") =>
          Len(_heap_items') = Len(_heap_items) - 1

C19_Termination ==
    /\ [][C19_Step]_vars
    /\ (sift.pc # "idle") ~> (sift.pc = "idle")
    /\ (gen.pc = "created") ~> (gen.pc = "done")

\* a sift-up has ended at slot 0 of a heap all of whose ordering keys are
\* equal
C19_Witness ==
    /\ sift.pc = "up"
    /\ sift.index = 0
    /\ Len(_heap_items) >= 3
    /\ \A i \in DOMAIN _heap_items : _heap_items[i][2] = _heap_items[1][2]

\* C20: sort extracts nothing until its first item is requested; after j
\* items of a sort over an n-element heap with non-None keys the heap holds
\* n - j elements, all of them not yet yielded and none of the yielded ones,
\* with the bijection and size invariants holding; once the sequence has ended
\* the heap is empty and a new sort over it yields nothing.
C20_State ==
    (gen.pc # "none" /\ None \notin ItemKeys(gen.items)) =>
        /\ gen.pc = "created" => (gen.out = <<>> /\ _heap_items = gen.items)
        /\ Len(gen.out) <= Len(gen.items)
        /\ Len(_heap_items) = Len(gen.items) - Len(gen.out)
        /\ AsSet(_heap_items) = AsSet(gen.items) \ AsSet(gen.out)
        /\ Bijective(heap)
        /\ gen.pc = "done" => (_heap_items = <<>> /\ __len__(heap) = 0)

C20_Step ==
    /\ (gen.pc = "done" /\ gen'.pc = "created") => gen'.items = <<>>
    /\ (gen.pc = "created" /\ gen.items = <<>> /\ gen' # gen) =>
          (gen'.pc = "done" /\ gen'.out = <<>>)

C20_LazyDrain == [](C20_State) /\ [][C20_Step]_vars

\* the consumer has taken two of the five items of the fixture heap
C20_Witness ==
    /\ gen.pc = "yielded"
    /\ Len(gen.items) = Len(test_values)
    /\ Len(gen.out) = 2
    /\ Len(_heap_items) = Len(test_values) - 2

\* the edges (from, to, weight) of an adjacency list
EdgesOf(adj_list) ==
    UNION { {<<node, adj_list[node][i][1], adj_list[node][i][2]>> :
                i \in DOMAIN adj_list[node]} : node \in DOMAIN adj_list }

Minimum(S) == CHOOSE x \in S : \A y \in S : x <= y

\* for every node that a path of at most k edges from src reaches, the
\* length of the shortest such path
RECURSIVE ShortestWithin(_, _, _)
ShortestWithin(adj_list, src, k) ==
    IF k = 0 THEN [node \in {src} |-> 0]
    ELSE LET prev == ShortestWithin(adj_list, src, k - 1)
             onward == {e \in EdgesOf(adj_list) : e[1] \in DOMAIN prev}
             lengths(node) ==
                 {prev[n] : n \in {node} \cap DOMAIN prev} \cup
                 {prev[e[1]] + e[3] : e \in {x \in onward : x[2] = node}}
             reached == (DOMAIN prev) \cup {e[2] : e \in onward}
         IN [node \in reached |-> Minimum(lengths(node))]

\* the true distances from the source of the run, for the reachable nodes
TrueDistances ==
    ShortestWithin(dijkstra.adj_list, dijkstra.node_from,
                   Len(dijkstra.distances))

\* C21: canonical shortest-path usage - dijkstra_shortest_paths on a graph
\* with symmetric edges of non-negative weight drives the heap through
\* construction, pop_first, contains and update only, never pops a node
\* twice, at its return has popped every node, never updates a node it has
\* popped, and - when the distances of the reachable nodes are below
\* infinity_value - returns for every reachable node its true shortest
\* distance and infinity_value for every other node.
C21_State ==
    dijkstra.pc # "none" =>
        /\ last.op \in {"__init__", "pop_first", "__contains__", "update"}
        /\ last.exc = ""
        /\ \A i, j \in DOMAIN dijkstra.popped :
               dijkstra.popped[i] = dijkstra.popped[j] => i = j
        /\ dijkstra.pc = "return" =>
               /\ {dijkstra.popped[i] : i \in DOMAIN dijkstra.popped} =
                      ItemKeys(dijkstra.distances)
               /\ _heap_items = <<>>
               /\ LET shortest == TrueDistances
                  IN (\A node \in DOMAIN shortest :
                          shortest[node] < dijkstra.infinity_value) =>
                         \A node \in ItemKeys(dijkstra.distances) :
                             DictItemsGet(dijkstra.distances, node) =
                                 IF node \in DOMAIN shortest
                                 THEN shortest[node]
                                 ELSE dijkstra.infinity_value

C21_Step ==
    (dijkstra.pc = "scan" /\ last'.op = "update") =>
        /\ \A i \in DOMAIN dijkstra.popped :
               dijkstra.popped[i] # last'.args[1][1]
        /\ last'.args[1][1] = Head(dijkstra.edges)[1]
        /\ last'.args[1][2] < DictItemsGet(dijkstra.distances,
                                           last'.args[1][1])

C21_ShortestPaths == [](C21_State) /\ [][C21_Step]_vars

\* the run has returned distances below infinity_value, and one node's
\* distance is below the weight of its edge from the source: its distance
\* was decreased a second time
C21_Witness ==
    /\ dijkstra.pc = "return"
    /\ LET shortest == TrueDistances
       IN \A node \in DOMAIN shortest :
              shortest[node] < dijkstra.infinity_value
    /\ \E i \in DOMAIN dijkstra.distances :
           \E e \in EdgesOf(dijkstra.adj_list) :
               /\ e[1] = dijkstra.node_from
               /\ e[2] = dijkstra.distances[i][1]
               /\ e[2] # dijkstra.node_from
               /\ dijkstra.distances[i][2] < e[3]

====
